---- MODULE Spec2Model ----
(***************************************************************************)
(* Query ingestion and term storage of the ReQL runtime                    *)
(* (src/src/rdb_protocol/query.cc): the query-id allocator, the query      *)
(* envelope constructor and the term-tree codec; and pthread_once of the   *)
(* Windows stub (src/windows_stub/pthread.cc).                             *)
(***************************************************************************)
EXTENDS Integers, Sequences, FiniteSets, TLC

(***************************************************************************)
(* Bounds of the model.                                                    *)
(***************************************************************************)
\* next_query_id is a uint64_t; the model stops issuing ids at MaxId, far
\* below the wrap at 2^64.
MaxId == 3
\* Number of query_id_t objects that may be alive at once.
MaxHandles == 3

NULL == 0
HandleIds == 1..MaxHandles
\* The stack slot of the local `destroyer` in the query_params_t constructor.
Destroyer == MaxHandles + 1
Slots == HandleIds \cup {Destroyer}

(***************************************************************************)
(* State.                                                                  *)
(***************************************************************************)
VARIABLES
    next_query_id,                \* query_cache_t::next_query_id
    oldest_outstanding_query_id,  \* query_cache_t::oldest_outstanding_query_id
    outstanding_query_ids,        \* intrusive list of query_id_t, head first
    handles,                      \* the query_id_t objects, by address
    crashed,                      \* a guarantee() failed: the process is gone
    issued,                       \* history: every value_ handed out, in order
    sample,                       \* next_query_id as sampled by a waiter, or -1
    query_json,                   \* the document given to the last constructor call
    query,                        \* what the last constructor call produced
    last_op,                      \* the operation that produced this state
    tree,                         \* the term tree handed to the serializer
    stream,                       \* the cells written, then read back
    cut,                          \* the stream lost its end on the way
    phase,                        \* "build", "wire" or "done"
    archive_res,                  \* the archive_result_t returned
    term_out,                     \* *term_out: <<>> while unset, else <<term>>
    terms,                        \* term_storage_t::terms, the arena, by index
    root_term,                    \* the term add_root_term parsed: <<>> or <<index>>
    global_optarg_list,           \* term_storage_t::global_optarg_list, head first
    start_time,                   \* term_storage_t::start_time: <<>> or <<time>>
    backtrace_registry,           \* the frames handed out by new_frame, in order
    clock,                        \* what pseudo::time_now() returns now
    exc,                          \* the exception the last storage call threw
    term_json,                    \* the document given to the last storage call
    time_read,                    \* what the last get_time() returned
    complete,                     \* *complete, the control flag of pthread_once
    once_pc,                      \* where each thread is in pthread_once
    init_calls                    \* history: how many times init() was invoked

alloc_vars == <<next_query_id, oldest_outstanding_query_id, outstanding_query_ids,
                handles, crashed, issued>>
query_vars == <<sample, query_json, query, last_op>>
codec_vars == <<tree, stream, cut, phase, archive_res, term_out>>
parse_vars == <<root_term, global_optarg_list, start_time,
                backtrace_registry, clock, exc, term_json, time_read>>
storage_vars == <<terms, root_term, global_optarg_list, start_time,
                  backtrace_registry, clock, exc, term_json, time_read>>
vars == <<next_query_id, oldest_outstanding_query_id, outstanding_query_ids,
          handles, crashed, issued, sample, query_json, query, last_op,
          tree, stream, cut, phase, archive_res, term_out,
          terms, root_term, global_optarg_list, start_time,
          backtrace_registry, clock, exc, term_json, time_read,
          complete, once_pc, init_calls>>
once_vars == <<complete, once_pc, init_calls>>

\* A query_id_t object: parent is TRUE while the parent pointer is non-null.
DeadHandle == [alive |-> FALSE, parent |-> FALSE, value_ |-> 0]

\* The allocator and the handle objects as one value, so that the
\* constructors and the destructor compose inside one handler.
Cache ==
    [next_query_id |-> next_query_id,
     oldest_outstanding_query_id |-> oldest_outstanding_query_id,
     outstanding_query_ids |-> outstanding_query_ids,
     handles |-> handles,
     crashed |-> crashed,
     issued |-> issued]

SetCache(c) ==
    /\ next_query_id' = c.next_query_id
    /\ oldest_outstanding_query_id' = c.oldest_outstanding_query_id
    /\ outstanding_query_ids' = c.outstanding_query_ids
    /\ handles' = c.handles
    /\ crashed' = c.crashed
    /\ issued' = c.issued

(***************************************************************************)
(* intrusive_list_t helpers.                                               *)
(***************************************************************************)
in_a_list(c, h) ==
    \E i \in 1..Len(c.outstanding_query_ids) : c.outstanding_query_ids[i] = h

head(list) == IF list = <<>> THEN NULL ELSE list[1]

tail(list) == IF list = <<>> THEN NULL ELSE list[Len(list)]

remove(list, h) == SelectSeq(list, LAMBDA x : x # h)

\* The move constructor of intrusive_list_node_t: the new node takes the
\* place of the old one in the list.
replace(list, old, new) ==
    [i \in 1..Len(list) |-> IF list[i] = old THEN new ELSE list[i]]

(***************************************************************************)
(* The acquiring constructor of query_id_t, from a query cache.  h is the  *)
(* address of the new object.                                              *)
(***************************************************************************)
\* Mutant: the new handle is linked at the head of the list.
QueryIdCtor_PushFront(c, h) ==
    LET value == c.next_query_id
    IN  [c EXCEPT !.next_query_id = @ + 1,
                  !.issued = Append(@, value),
                  !.handles[h] = [alive |-> TRUE, parent |-> TRUE,
                                  value_ |-> value],
                  !.outstanding_query_ids = <<h>> \o @]

\* Mutant: the counter is incremented before it is read.
QueryIdCtor_PreIncrement(c, h) ==
    LET value == c.next_query_id + 1
    IN  [c EXCEPT !.next_query_id = @ + 1,
                  !.issued = Append(@, value),
                  !.handles[h] = [alive |-> TRUE, parent |-> TRUE,
                                  value_ |-> value],
                  !.outstanding_query_ids = Append(@, h)]

QueryIdCtor(c, h) ==
    LET value == c.next_query_id
        last_newest == tail(c.outstanding_query_ids)
        c1 == [c EXCEPT !.next_query_id = @ + 1,
                        !.issued = Append(@, value),
                        !.handles[h] = [alive |-> TRUE, parent |-> TRUE,
                                        value_ |-> value]]
    IN  IF /\ (last_newest = NULL \/ c.handles[last_newest].value_ < value)
           /\ value >= c.oldest_outstanding_query_id
        THEN [c1 EXCEPT !.outstanding_query_ids = Append(@, h)]
        ELSE [c1 EXCEPT !.crashed = TRUE]

(***************************************************************************)
(* query_id_t(query_id_t &&other): h is the address of the new object.     *)
(***************************************************************************)
\* Mutant: the new handle is linked as a second node and the old one stays.
QueryIdMove_LinksCopy(c, other, h) ==
    [c EXCEPT !.outstanding_query_ids = Append(@, h),
              !.handles[h] = [alive |-> TRUE,
                              parent |-> c.handles[other].parent,
                              value_ |-> c.handles[other].value_],
              !.handles[other].parent = FALSE]

QueryIdMove(c, other, h) ==
    [c EXCEPT !.outstanding_query_ids = replace(@, other, h),
              !.handles[h] = [alive |-> TRUE,
                              parent |-> c.handles[other].parent,
                              value_ |-> c.handles[other].value_],
              !.handles[other].parent = FALSE]

(***************************************************************************)
(* ~query_id_t(): release.                                                 *)
(***************************************************************************)
\* Mutant: the handle is unlinked but the watermark is never advanced.
QueryIdDtor_KeepsWatermark(c, h) ==
    [c EXCEPT !.handles[h] = DeadHandle,
              !.outstanding_query_ids = remove(@, h)]

\* Mutant: releasing the oldest id moves the watermark to next_query_id even
\* when other ids are still outstanding.
QueryIdDtor_SkipsHead(c, h) ==
    [c EXCEPT !.handles[h] = DeadHandle,
              !.outstanding_query_ids = remove(@, h),
              !.oldest_outstanding_query_id =
                  IF in_a_list(c, h) /\ c.handles[h].value_ = @
                  THEN c.next_query_id ELSE @]

\* Mutant: the watermark moves only when the list becomes empty.
QueryIdDtor_EmptyOnly(c, h) ==
    [c EXCEPT !.handles[h] = DeadHandle,
              !.outstanding_query_ids = remove(@, h),
              !.oldest_outstanding_query_id =
                  IF in_a_list(c, h) /\ remove(c.outstanding_query_ids, h) = <<>>
                  THEN c.next_query_id ELSE @]

\* Mutant: the watermark is set to the value of the handle released, also
\* when that handle is not the oldest.
QueryIdDtor_WatermarkToReleased(c, h) ==
    [c EXCEPT !.handles[h] = DeadHandle,
              !.outstanding_query_ids = remove(@, h),
              !.oldest_outstanding_query_id =
                  IF in_a_list(c, h) THEN c.handles[h].value_ ELSE @]

QueryIdDtor(c, h) ==
    LET value == c.handles[h].value_
        gone == [c EXCEPT !.handles[h] = DeadHandle]
    IN  IF in_a_list(c, h)
        THEN LET rest == remove(c.outstanding_query_ids, h)
                 c1 == [gone EXCEPT !.outstanding_query_ids = rest]
                 next_outstanding_id == head(rest)
             IN  IF value = c.oldest_outstanding_query_id
                 THEN IF next_outstanding_id = NULL
                      THEN [c1 EXCEPT !.oldest_outstanding_query_id =
                                          c.next_query_id]
                      ELSE IF c.handles[next_outstanding_id].value_ > value
                           THEN [c1 EXCEPT !.oldest_outstanding_query_id =
                                     c.handles[next_outstanding_id].value_]
                           ELSE [c1 EXCEPT !.crashed = TRUE]
                 ELSE c1
        ELSE gone

FreeHandles == {h \in HandleIds : ~handles[h].alive}
FreeHandle == CHOOSE h \in FreeHandles : \A g \in FreeHandles : h <= g

(***************************************************************************)
(* JSON documents (rapidjson::Value).  A number that is not an int (1.5,   *)
(* 1e10) has isint = FALSE and n is the word GetInt() reads from it where  *)
(* its assertion is compiled out.  datum_ok = FALSE marks a value the      *)
(* datum bridge rejects as a malformed datum.                              *)
(***************************************************************************)
J(type) ==
    [type |-> type, n |-> 0, isint |-> FALSE, items |-> <<>>,
     members |-> <<>>, datum_ok |-> TRUE]
JNull == J("kNullType")
JBool(b) == J(IF b THEN "kTrueType" ELSE "kFalseType")
JInt(n) == [J("kNumberType") EXCEPT !.n = n, !.isint = TRUE]
JDouble(word) == [J("kNumberType") EXCEPT !.n = word]
JString == J("kStringType")
JArray(items) == [J("kArrayType") EXCEPT !.items = items]
JObject(members) == [J("kObjectType") EXCEPT !.members = members]
JBadDatum == [J("kObjectType") EXCEPT !.datum_ok = FALSE]
Member(name, value) == [name |-> name, value |-> value]

IsArray(v) == v.type = "kArrayType"
IsObject(v) == v.type = "kObjectType"
IsNumber(v) == v.type = "kNumberType"
Size(v) == Len(v.items)
GetInt(v) == v.n

rapidjson_typestr(t) ==
    CASE t = "kNullType" -> "NULL"
      [] t = "kFalseType" -> "BOOL"
      [] t = "kTrueType" -> "BOOL"
      [] t = "kObjectType" -> "OBJECT"
      [] t = "kArrayType" -> "ARRAY"
      [] t = "kStringType" -> "STRING"
      [] t = "kNumberType" -> "NUMBER"

\* Term::TermType and Query::QueryType values used here (ql2.proto).
DATUM == 1
MAKE_OBJ == 3
START == 1
CONTINUE == 2
STOP == 3
NOREPLY_WAIT == 4
SERVER_INFO == 5

(***************************************************************************)
(* to_datum(json, limits, reql_version): the datum bridge.  It raises a    *)
(* GENERIC parse error on a malformed datum; otherwise the datum has the   *)
(* type of the JSON value.                                                 *)
(***************************************************************************)
RECURSIVE DatumOk(_)
DatumOk(v) ==
    /\ v.datum_ok
    /\ \A i \in 1..Len(v.items) : DatumOk(v.items[i])
    /\ \A i \in 1..Len(v.members) : DatumOk(v.members[i].value)

to_datum(v) ==
    [raised |-> ~DatumOk(v),
     type |-> CASE v.type \in {"kTrueType", "kFalseType"} -> "R_BOOL"
                [] v.type = "kNullType" -> "R_NULL"
                [] v.type = "kNumberType" -> "R_NUM"
                [] v.type = "kStringType" -> "R_STR"
                [] v.type = "kArrayType" -> "R_ARRAY"
                [] v.type = "kObjectType" -> "R_OBJECT",
     b |-> v.type = "kTrueType"]

(***************************************************************************)
(* query_params_t::static_optarg_as_bool.  FindMember returns the first    *)
(* member of that name.  The result says whether to_datum raised out of    *)
(* the helper, and the value returned otherwise.                           *)
(***************************************************************************)
FindMember(obj, key) ==
    LET idx == {i \in 1..Len(obj.members) : obj.members[i].name = key}
    IN  IF idx = {} THEN 0 ELSE CHOOSE i \in idx : \A k \in idx : i <= k

static_optarg_as_bool(global_optargs_json, key, default_value) ==
    LET it == FindMember(global_optargs_json, key)
        value == global_optargs_json.members[it].value
    IN  IF \/ it = 0
           \/ ~IsArray(value)
           \/ Size(value) # 2
           \/ ~IsNumber(value.items[1])
           \/ GetInt(value.items[1]) # DATUM
        THEN [raised |-> FALSE, value |-> default_value]
        ELSE LET res == to_datum(value.items[2])
             IN  IF res.raised
                 THEN [raised |-> TRUE, value |-> default_value]
                 ELSE IF res.type = "R_BOOL"
                      THEN [raised |-> FALSE, value |-> res.b]
                      ELSE [raised |-> FALSE, value |-> default_value]

(***************************************************************************)
(* The body of query_params_t::query_params_t, after the member            *)
(* initialisers: what it throws, or the fields it leaves.                  *)
(***************************************************************************)
NoQuery ==
    [status |-> "none", type |-> 0, noreply |-> FALSE, profile |-> FALSE,
     id |-> NULL, has_root_term |-> FALSE, has_global_optargs |-> FALSE,
     what |-> "", found |-> "", bt |-> ""]

ClientError(what, found) ==
    [NoQuery EXCEPT !.status = "CLIENT_ERROR", !.what = what, !.found = found,
                    !.bt = "EMPTY_BACKTRACE"]

EnvelopeBody(json) ==
    IF ~IsArray(json)
    THEN ClientError("Expected a query to be an array", rapidjson_typestr(json.type))
    ELSE IF Size(json) = 0 \/ Size(json) > 3
    THEN ClientError("Expected 0 to 3 elements in the top-level query", "")
    ELSE IF ~IsNumber(json.items[1])
    THEN ClientError("Expected a query type as a number",
                     rapidjson_typestr(json.items[1].type))
    ELSE IF Size(json) >= 3 /\ ~IsObject(json.items[3])
    THEN ClientError("Expected global optargs as an object",
                     rapidjson_typestr(json.items[3].type))
    ELSE LET has_optargs == Size(json) >= 3
             nr == IF has_optargs
                   THEN static_optarg_as_bool(json.items[3], "noreply", FALSE)
                   ELSE [raised |-> FALSE, value |-> FALSE]
             pr == IF has_optargs /\ ~nr.raised
                   THEN static_optarg_as_bool(json.items[3], "profile", FALSE)
                   ELSE [raised |-> FALSE, value |-> FALSE]
         IN  IF nr.raised \/ pr.raised
             THEN [NoQuery EXCEPT !.status = "GENERIC",
                                  !.what = "malformed datum"]
             ELSE [NoQuery EXCEPT !.status = "ok",
                                  !.type = GetInt(json.items[1]),
                                  !.noreply = nr.value,
                                  !.profile = pr.value,
                                  !.has_root_term = Size(json) >= 2,
                                  !.has_global_optargs = has_optargs]

(***************************************************************************)
(* Lines 141-143 of the constructor: a query that wants a reply gives its  *)
(* id up at once, through the local `destroyer`.                           *)
(***************************************************************************)
\* Mutant: the test is inverted, so the noreply ids are the ones given up.
ReleaseIfReply_Inverted(c, h, noreply) ==
    IF noreply
    THEN QueryIdDtor(QueryIdMove(c, h, Destroyer), Destroyer)
    ELSE c

ReleaseIfReply(c, h, noreply) ==
    IF ~noreply
    THEN QueryIdDtor(QueryIdMove(c, h, Destroyer), Destroyer)
    ELSE c

(***************************************************************************)
(* Documents a client can send.                                            *)
(***************************************************************************)
OptargValues ==
    {JArray(<<JInt(DATUM), JBool(TRUE)>>),
     JArray(<<JInt(DATUM), JBool(FALSE)>>),
     JArray(<<JInt(DATUM), JInt(DATUM)>>),
     JArray(<<JInt(DATUM)>>),
     JArray(<<JInt(MAKE_OBJ), JBool(TRUE)>>),
     JArray(<<JString, JBool(TRUE)>>),
     JArray(<<JDouble(DATUM), JBool(TRUE)>>),
     JArray(<<JInt(DATUM), JBadDatum>>),
     JBool(TRUE)}

\* The shapes that reach to_datum, for the documents with two members.
BoolOptargValues ==
    {JArray(<<JInt(DATUM), JBool(TRUE)>>), JArray(<<JInt(DATUM), JBool(FALSE)>>)}

OptargObjects ==
    {JObject(<<>>), JObject(<<Member("db", JString)>>)}
    \cup {JObject(<<Member(k, v)>>) :
            k \in {"noreply", "profile"}, v \in OptargValues}
    \cup {JObject(<<Member("noreply", v), Member("profile", w)>>) :
            v \in BoolOptargValues \cup {JArray(<<JInt(DATUM), JBadDatum>>)},
            w \in BoolOptargValues \cup {JArray(<<JInt(DATUM), JBadDatum>>)}}
    \cup {JObject(<<Member("noreply", v), Member("noreply", w)>>) :
            v \in BoolOptargValues, w \in BoolOptargValues}

QueryTypeValues ==
    {JInt(START - 1), JInt(START), JInt(SERVER_INFO), JInt(SERVER_INFO + 1),
     JDouble(NOREPLY_WAIT), JString}

RootTermValues == {JArray(<<JInt(DATUM), JInt(SERVER_INFO)>>), JString}

Envelopes ==
    {JNull, JBool(TRUE), JString, JInt(START), JObject(<<Member("not", JString)>>),
     JArray(<<>>),
     JArray(<<JInt(START), JString, JObject(<<>>), JNull>>)}
    \cup {JArray(<<t>>) : t \in QueryTypeValues}
    \cup {JArray(<<t, r>>) : t \in QueryTypeValues, r \in RootTermValues}
    \cup {JArray(<<t, JString, o>>) :
            t \in {JInt(START), JDouble(NOREPLY_WAIT), JString},
            o \in OptargObjects \cup {JString, JArray(<<>>)}}

\* The documents the allocator is exercised with: a reply query, a noreply
\* query and a rejected envelope.
CoreEnvelopes ==
    {JArray(<<JInt(START), JArray(<<JInt(DATUM), JInt(SERVER_INFO)>>)>>),
     JArray(<<JInt(START), JArray(<<JInt(DATUM), JInt(SERVER_INFO)>>),
              JObject(<<Member("noreply", JArray(<<JInt(DATUM), JBool(TRUE)>>))>>)>>),
     JObject(<<Member("not", JString)>>)}

(***************************************************************************)
(* Terms (raw_term_t), as trees: the args and optargs lists hold the child *)
(* terms in list order; an optarg carries its name in optarg_name.  value  *)
(* is the datum of a DATUM term; <<>> is a datum_t that was never set.     *)
(***************************************************************************)
\* Bound on the number of terms of a tree given to the serializer.
MaxNodes == 3

NOW == 103
EmptyBacktrace == 0
NoDatum == <<>>
\* raw_term_t::REFERENCE, the type tag of a term that stands for another.
REFERENCE == -1

\* A raw_term_t as term_storage_t::new_term leaves it: src is <<>> for a
\* null pointer and <<target>> otherwise.
new_term(type, bt) ==
    [type |-> type, bt |-> bt, value |-> NoDatum, optarg_name |-> "",
     args |-> <<>>, optargs |-> <<>>, src |-> <<>>]

\* The terms the trees are built from: two datums and two operator terms,
\* differing in type, backtrace and value.
DatumTerms ==
    {[new_term(DATUM, EmptyBacktrace) EXCEPT !.value = <<START, CONTINUE>>],
     [new_term(DATUM, EmptyBacktrace + 1) EXCEPT !.value = <<CONTINUE, START>>]}
ApplyTerms == {new_term(MAKE_OBJ, EmptyBacktrace), new_term(NOW, EmptyBacktrace + 1)}
OptargNames == {"a", "db"}

Named(forest, names) ==
    [i \in 1..Len(forest) |-> [forest[i] EXCEPT !.optarg_name = names[i]]]

\* TreesOfSize(n): the trees of exactly n terms; Forests(n): the sequences of
\* trees of n terms altogether.
RECURSIVE TreesOfSize(_), Forests(_)
Forests(n) ==
    IF n = 0 THEN {<<>>}
    ELSE UNION {{<<t>> \o f : t \in TreesOfSize(k), f \in Forests(n - k)} :
                  k \in 1..n}
TreesOfSize(n) ==
    (IF n = 1 THEN DatumTerms ELSE {})
    \cup UNION {UNION {{[a EXCEPT !.args = xs, !.optargs = Named(ys, names)] :
                           a \in ApplyTerms, xs \in Forests(k),
                           names \in [1..Len(ys) -> OptargNames]} :
                         ys \in Forests(n - 1 - k)} :
                  k \in 0..(n - 1)}

Trees == UNION {TreesOfSize(n) : n \in 1..MaxNodes}

(***************************************************************************)
(* The archive primitives, on a stream of cells.  An int32, a backtrace id *)
(* and a size_t take one cell; a string is its length and then its bytes;  *)
(* a datum takes two cells.  A read past the end of the stream fails.      *)
(***************************************************************************)
StringBytes(str) ==
    CASE str = "" -> <<>>
      [] str = "a" -> <<97>>
      [] str = "db" -> <<100, 98>>

serialize_string(str) == <<Len(StringBytes(str))>> \o StringBytes(str)

serialize_datum(d) == d

bad(r) == r # "SUCCESS"

deserialize_cell(s, pos) ==
    IF pos > Len(s)
    THEN [res |-> "SOCK_ERROR", value |-> 0, pos |-> pos]
    ELSE [res |-> "SUCCESS", value |-> s[pos], pos |-> pos + 1]

deserialize_string(s, pos) ==
    IF pos > Len(s) \/ pos + s[pos] > Len(s)
    THEN [res |-> "SOCK_ERROR", value |-> "", pos |-> Len(s) + 1]
    ELSE LET bytes == SubSeq(s, pos + 1, pos + s[pos])
         IN  [res |-> "SUCCESS",
              value |-> IF \E n \in OptargNames \cup {""} : StringBytes(n) = bytes
                        THEN CHOOSE n \in OptargNames \cup {""} :
                                 StringBytes(n) = bytes
                        ELSE "?",
              pos |-> pos + s[pos] + 1]

\* On a short read the datum is left as it was: unset.
deserialize_datum(s, pos) ==
    IF pos + 1 > Len(s)
    THEN [res |-> "SOCK_ERROR", value |-> NoDatum, pos |-> Len(s) + 1]
    ELSE [res |-> "SUCCESS", value |-> <<s[pos], s[pos + 1]>>, pos |-> pos + 2]

(***************************************************************************)
(* Reading a term: raw_term_t::args, optargs, num_args, num_optargs and    *)
(* arg_iterator_t::next.  A Reference answers with the lists of its        *)
(* target, and a list member that is a Reference is handed out as its      *)
(* target.                                                                 *)
(***************************************************************************)
args(term) == IF term.type = REFERENCE THEN term.src[1].args ELSE term.args

optargs(term) ==
    IF term.type = REFERENCE THEN term.src[1].optargs ELSE term.optargs

num_args(term) == Len(args(term))

num_optargs(term) == Len(optargs(term))

arg_iterator_next(last_item) ==
    IF last_item.type = REFERENCE THEN last_item.src[1] ELSE last_item

(***************************************************************************)
(* serialize_term_tree<W>(wm, term).  The type and backtrace written are   *)
(* those of term itself; the optarg name is that of the list member.       *)
(***************************************************************************)
RECURSIVE serialize_term_tree(_), serialize_args(_), serialize_optargs(_)
serialize_args(list) ==
    IF list = <<>> THEN <<>>
    ELSE serialize_term_tree(arg_iterator_next(Head(list)))
         \o serialize_args(Tail(list))

serialize_optargs(list) ==
    IF list = <<>> THEN <<>>
    ELSE serialize_string(Head(list).optarg_name)
         \o serialize_term_tree(arg_iterator_next(Head(list)))
         \o serialize_optargs(Tail(list))

\* Mutant: the optarg name is written after the optarg instead of before it.
serialize_term_tree_NameLast(term) ==
    <<term.type, term.bt>>
    \o IF term.type = DATUM
       THEN serialize_datum(term.value)
       ELSE <<num_args(term)>> \o serialize_args(args(term))
            \o <<num_optargs(term)>>
            \o (IF optargs(term) = <<>> THEN <<>>
                ELSE serialize_term_tree(arg_iterator_next(Head(optargs(term))))
                     \o serialize_string(Head(optargs(term)).optarg_name)
                     \o serialize_optargs(Tail(optargs(term))))

serialize_term_tree(term) ==
    <<term.type, term.bt>>
    \o IF term.type = DATUM
       THEN serialize_datum(term.value)
       ELSE <<num_args(term)>> \o serialize_args(args(term))
            \o <<num_optargs(term)>> \o serialize_optargs(optargs(term))

(***************************************************************************)
(* term_storage_t::deserialize_term_tree<cluster_version_t::v2_1_is_latest> *)
(* reading s from pos.  term_out is the caller's *term_out; the result     *)
(* holds the code returned, the position reached and *term_out as left.    *)
(***************************************************************************)
Returned(r, pos, out) == [res |-> r, pos |-> pos, term_out |-> out]

RECURSIVE deserialize_term_tree(_, _, _), deserialize_args(_, _, _, _, _),
          deserialize_optargs(_, _, _, _, _)

\* The loop over num_args (lines 482-486), then the optargs (lines 487-498).
deserialize_args(s, pos, out, term, n) ==
    IF n = 0
    THEN LET num_optargs_read == deserialize_cell(s, pos)
         IN  IF bad(num_optargs_read.res)
             THEN Returned(num_optargs_read.res, num_optargs_read.pos, out)
             ELSE deserialize_optargs(s, num_optargs_read.pos, out, term,
                                      num_optargs_read.value)
    ELSE LET child == deserialize_term_tree(s, pos, out)
         IN  IF bad(child.res)
             THEN child
             ELSE deserialize_args(s, child.pos, child.term_out,
                                   [term EXCEPT !.args =
                                        Append(@, child.term_out[1])],
                                   n - 1)

deserialize_optargs(s, pos, out, term, n) ==
    IF n = 0
    THEN Returned("SUCCESS", pos, <<term>>)
    ELSE LET optarg_name == deserialize_string(s, pos)
         IN  IF bad(optarg_name.res)
             THEN Returned(optarg_name.res, optarg_name.pos, out)
             ELSE LET child == deserialize_term_tree(s, optarg_name.pos, out)
                      named == [child.term_out[1] EXCEPT
                                    !.optarg_name = optarg_name.value]
                  IN  IF bad(child.res)
                      THEN child
                      ELSE deserialize_optargs(s, child.pos, <<named>>,
                                               [term EXCEPT !.optargs =
                                                    Append(@, named)],
                                               n - 1)

deserialize_term_tree(s, pos, term_out_in) ==
    LET type == deserialize_cell(s, pos)
        bt == deserialize_cell(s, type.pos)
        term == new_term(type.value, bt.value)
    IN  IF bad(type.res) THEN Returned(type.res, type.pos, term_out_in)
        ELSE IF bad(bt.res) THEN Returned(bt.res, bt.pos, term_out_in)
        ELSE IF term.type = DATUM
        THEN \* line 477: the result of reading the datum is dropped
             LET datum == deserialize_datum(s, bt.pos)
             IN  Returned(bt.res, datum.pos,
                          <<[term EXCEPT !.value = datum.value]>>)
        ELSE LET num_args_read == deserialize_cell(s, bt.pos)
             IN  IF bad(num_args_read.res)
                 THEN Returned(num_args_read.res, num_args_read.pos, term_out_in)
                 ELSE deserialize_args(s, num_args_read.pos, term_out_in, term,
                                       num_args_read.value)

(***************************************************************************)
(* Initial state: a fresh query cache, no handle, no query.                *)
(***************************************************************************)
Op(op, h, other) == [op |-> op, h |-> h, other |-> other]

InitCache ==
    /\ next_query_id = 0
    /\ oldest_outstanding_query_id = 0
    /\ outstanding_query_ids = <<>>
    /\ handles = [h \in Slots |-> DeadHandle]
    /\ crashed = FALSE
    /\ issued = <<>>
    /\ sample = -1
    /\ query_json = JNull
    /\ query = NoQuery
    /\ last_op = Op("init", NULL, NULL)

CodecIdle ==
    /\ tree = <<>>
    /\ stream = <<>>
    /\ cut = FALSE
    /\ phase = "idle"
    /\ archive_res = ""
    /\ term_out = <<>>

\* term_storage_t::term_storage_t: an empty arena, no start time yet.
NoExc ==
    [raised |-> FALSE, kind |-> "", bt |-> EmptyBacktrace, what |-> "",
     expected |-> "", found |-> ""]

InitStorage ==
    /\ terms = <<>>
    /\ root_term = <<>>
    /\ global_optarg_list = <<>>
    /\ start_time = <<>>
    /\ backtrace_registry = <<>>
    /\ clock = 1
    /\ exc = NoExc
    /\ term_json = JNull
    /\ time_read = <<>>

\* The values of a pthread_once_t, which the stub declares as a bool.
PTHREAD_ONCE_INIT == FALSE
PTHREAD_ONCE_COMPLETED == TRUE

\* Number of threads that call pthread_once on the one control flag.
MaxThreads == 3
Threads == 1..MaxThreads

\* A control flag initialised with PTHREAD_ONCE_INIT; no thread has called.
InitOnce ==
    /\ complete = PTHREAD_ONCE_INIT
    /\ once_pc = [t \in Threads |-> "idle"]
    /\ init_calls = 0

Init == InitCache /\ CodecIdle /\ InitStorage /\ InitOnce

\* The codec is given one tree of Trees.
InitCodec ==
    /\ InitCache
    /\ tree \in {<<t>> : t \in Trees}
    /\ stream = <<>>
    /\ cut = FALSE
    /\ phase = "build"
    /\ archive_res = ""
    /\ term_out = <<>>
    /\ InitStorage
    /\ InitOnce

NoCall == query_json' = JNull /\ query' = NoQuery

(***************************************************************************)
(* Operations.                                                             *)
(***************************************************************************)
\* query_id_t id(query_cache)
Acquire ==
    /\ ~crashed
    /\ next_query_id < MaxId
    /\ FreeHandles # {}
    /\ SetCache(QueryIdCtor(Cache, FreeHandle))
    /\ last_op' = Op("acquire", FreeHandle, NULL)
    /\ NoCall
    /\ UNCHANGED sample
    /\ UNCHANGED codec_vars
    /\ UNCHANGED storage_vars
    /\ UNCHANGED once_vars

\* query_id_t fresh(std::move(other)); a moved-from handle is not moved again.
Move(other) ==
    /\ ~crashed
    /\ handles[other].alive
    /\ handles[other].parent
    /\ FreeHandles # {}
    /\ SetCache(QueryIdMove(Cache, other, FreeHandle))
    /\ last_op' = Op("move", FreeHandle, other)
    /\ NoCall
    /\ UNCHANGED sample
    /\ UNCHANGED codec_vars
    /\ UNCHANGED storage_vars
    /\ UNCHANGED once_vars

\* The destructor of a live query_id_t, on the list or moved-from.
Release(h) ==
    /\ ~crashed
    /\ handles[h].alive
    /\ SetCache(QueryIdDtor(Cache, h))
    /\ last_op' = Op("release", h, NULL)
    /\ NoCall
    /\ UNCHANGED sample
    /\ UNCHANGED codec_vars
    /\ UNCHANGED storage_vars
    /\ UNCHANGED once_vars

\* A noreply_wait enters and samples next_query_id.
Sample ==
    /\ ~crashed
    /\ sample' = next_query_id
    /\ last_op' = Op("sample", NULL, NULL)
    /\ NoCall
    /\ UNCHANGED alloc_vars
    /\ UNCHANGED codec_vars
    /\ UNCHANGED storage_vars
    /\ UNCHANGED once_vars

\* Mutant: an exception thrown by the body leaves the member id alive and
\* on the list.
NewQuery_KeepsIdOnThrow(json) ==
    /\ ~crashed
    /\ next_query_id < MaxId
    /\ FreeHandles # {}
    /\ LET h == FreeHandle
           c1 == QueryIdCtor(Cache, h)
           q == EnvelopeBody(json)
       IN  /\ query_json' = json
           /\ last_op' = Op("query", h, NULL)
           /\ IF c1.crashed
              THEN SetCache(c1) /\ query' = NoQuery
              ELSE IF q.status # "ok"
              THEN SetCache(c1) /\ query' = q
              ELSE /\ SetCache(ReleaseIfReply(c1, h, q.noreply))
                   /\ query' = [q EXCEPT !.id = h]
    /\ UNCHANGED sample
    /\ UNCHANGED codec_vars
    /\ UNCHANGED storage_vars
    /\ UNCHANGED once_vars

\* query_params_t::query_params_t on the document json.  The member id is
\* acquired first; an exception thrown by the body destroys it again.
NewQuery(json) ==
    /\ ~crashed
    /\ next_query_id < MaxId
    /\ FreeHandles # {}
    /\ LET h == FreeHandle
           c1 == QueryIdCtor(Cache, h)
           q == EnvelopeBody(json)
       IN  /\ query_json' = json
           /\ last_op' = Op("query", h, NULL)
           /\ IF c1.crashed
              THEN SetCache(c1) /\ query' = NoQuery
              ELSE IF q.status # "ok"
              THEN SetCache(QueryIdDtor(c1, h)) /\ query' = q
              ELSE /\ SetCache(ReleaseIfReply(c1, h, q.noreply))
                   /\ query' = [q EXCEPT !.id = h]
    /\ UNCHANGED sample
    /\ UNCHANGED codec_vars
    /\ UNCHANGED storage_vars
    /\ UNCHANGED once_vars

Next ==
    \/ Acquire
    \/ \E h \in HandleIds : Move(h)
    \/ \E h \in HandleIds : Release(h)
    \/ Sample
    \/ \E json \in CoreEnvelopes : NewQuery(json)

Spec == Init /\ [][Next]_vars

\* Every handle acquired before the sample is eventually released: the
\* release of a listed handle whose value is below the sample is not put
\* off forever.
ReleaseBeforeSample ==
    \E h \in HandleIds :
        /\ handles[h].parent
        /\ handles[h].value_ < sample
        /\ Release(h)

LiveSpec == Init /\ [][Next]_vars /\ WF_vars(ReleaseBeforeSample)

\* The envelope constructor over every document of Envelopes; a query
\* object's id is destroyed with it.
NextQuery ==
    \/ \E json \in Envelopes : NewQuery(json)
    \/ \E h \in HandleIds : Release(h)

SpecQuery == Init /\ [][NextQuery]_vars

(***************************************************************************)
(* The codec: a tree is written with serialize_term_tree, the stream may   *)
(* lose its end, and the latest codec reads it back.                       *)
(***************************************************************************)
Serialize ==
    /\ phase = "build"
    /\ stream' = serialize_term_tree(tree[1])
    /\ phase' = "wire"
    /\ UNCHANGED <<tree, cut, archive_res, term_out>>
    /\ UNCHANGED alloc_vars
    /\ UNCHANGED query_vars
    /\ UNCHANGED storage_vars
    /\ UNCHANGED once_vars

\* The stream ends early, after k cells.
Truncate(k) ==
    /\ phase = "wire"
    /\ ~cut
    /\ stream' = SubSeq(stream, 1, k)
    /\ cut' = TRUE
    /\ UNCHANGED <<tree, phase, archive_res, term_out>>
    /\ UNCHANGED alloc_vars
    /\ UNCHANGED query_vars
    /\ UNCHANGED storage_vars
    /\ UNCHANGED once_vars

Deserialize ==
    /\ phase = "wire"
    /\ LET r == deserialize_term_tree(stream, 1, <<>>)
       IN  /\ archive_res' = r.res
           /\ term_out' = r.term_out
    /\ phase' = "done"
    /\ UNCHANGED <<tree, stream, cut>>
    /\ UNCHANGED alloc_vars
    /\ UNCHANGED query_vars
    /\ UNCHANGED storage_vars
    /\ UNCHANGED once_vars

NextCodec ==
    \/ Serialize
    \/ \E k \in 0..(Len(stream) - 1) : Truncate(k)
    \/ Deserialize

SpecCodec == InitCodec /\ [][NextCodec]_vars

(***************************************************************************)
(* The arena of a term_storage_t.  A term is addressed by its index in     *)
(* terms; args, optargs and src hold indices.                              *)
(***************************************************************************)
\* Bound on the number of terms the builder operations put in one arena.
MaxTerms == 3

\* Mutant: a Reference to a Reference keeps pointing at that Reference.
new_ref_KeepsChain(ts, src) ==
    [new_term(REFERENCE, ts[src].bt) EXCEPT !.src = <<src>>]

\* term_storage_t::new_ref(src): the term pushed on the arena ts.
new_ref(ts, src) ==
    [new_term(REFERENCE, ts[src].bt) EXCEPT
         !.src = IF ts[src].type = REFERENCE THEN ts[src].src ELSE <<src>>]

\* The guarantee of line 326.
new_ref_guarantee(ts, src) ==
    ts[src].type = REFERENCE => ts[ts[src].src[1]].type # REFERENCE

\* The tree that hangs from the term at index i, References kept as nodes
\* that carry their target.
RECURSIVE TermTree(_, _)
TermTree(ts, i) ==
    LET t == ts[i]
    IN  [t EXCEPT !.args = [k \in 1..Len(t.args) |-> TermTree(ts, t.args[k])],
                  !.optargs = [k \in 1..Len(t.optargs) |->
                                  TermTree(ts, t.optargs[k])],
                  !.src = [k \in 1..Len(t.src) |-> TermTree(ts, t.src[k])]]

\* intrusive_list_node_t::in_a_list for a term: it is a member of a list.
term_in_a_list(ts, c) ==
    \E p \in 1..Len(ts) :
        \/ \E k \in 1..Len(ts[p].args) : ts[p].args[k] = c
        \/ \E k \in 1..Len(ts[p].optargs) : ts[p].optargs[k] = c

\* The terms met from the term i by following args, optargs and src.
RECURSIVE Reach(_, _)
Reach(ts, i) ==
    {i} \cup UNION {Reach(ts, ts[i].args[k]) : k \in 1..Len(ts[i].args)}
        \cup UNION {Reach(ts, ts[i].optargs[k]) : k \in 1..Len(ts[i].optargs)}
        \cup UNION {Reach(ts, ts[i].src[k]) : k \in 1..Len(ts[i].src)}

\* The write_message_t of a serialize_term_tree call lives for that call.
NoWrite ==
    /\ tree' = <<>>
    /\ stream' = <<>>
    /\ phase' = "idle"
    /\ UNCHANGED <<cut, archive_res, term_out>>

\* The terms a builder makes: a datum and an operator term, with different
\* backtraces.
BuilderTerms ==
    {[new_term(DATUM, EmptyBacktrace + 1) EXCEPT !.value = <<CONTINUE, START>>],
     new_term(MAKE_OBJ, EmptyBacktrace)}

\* new_term, for the terms a builder makes; a datum gets its value at once.
NewTerm(t) ==
    /\ ~crashed
    /\ Len(terms) < MaxTerms
    /\ terms' = Append(terms, t)
    /\ last_op' = Op("new_term", Len(terms) + 1, NULL)
    /\ UNCHANGED <<sample, query_json, query>>
    /\ NoWrite
    /\ UNCHANGED <<alloc_vars, parse_vars>>
    /\ UNCHANGED once_vars

NewRef(src) ==
    /\ ~crashed
    /\ Len(terms) < MaxTerms
    /\ src \in 1..Len(terms)
    /\ terms' = Append(terms, new_ref(terms, src))
    /\ crashed' = ~new_ref_guarantee(terms, src)
    /\ last_op' = Op("new_ref", Len(terms) + 1, src)
    /\ UNCHANGED <<sample, query_json, query>>
    /\ UNCHANGED <<next_query_id, oldest_outstanding_query_id,
                   outstanding_query_ids, handles, issued>>
    /\ NoWrite
    /\ UNCHANGED parse_vars
    /\ UNCHANGED once_vars

\* term->mutable_args().push_back(child): the child is on no list yet and
\* the tree stays a tree.
CanLink(p, c) ==
    /\ ~crashed
    /\ p \in 1..Len(terms)
    /\ c \in 1..Len(terms)
    /\ terms[p].type \notin {DATUM, REFERENCE}
    /\ ~term_in_a_list(terms, c)
    /\ p \notin Reach(terms, c)

PushArg(p, c) ==
    /\ CanLink(p, c)
    /\ terms' = [terms EXCEPT ![p].args = Append(@, c)]
    /\ last_op' = Op("push_arg", p, c)
    /\ UNCHANGED <<sample, query_json, query>>
    /\ NoWrite
    /\ UNCHANGED <<alloc_vars, parse_vars>>
    /\ UNCHANGED once_vars

\* term->mutable_optargs().push_back(child), the child named name.
PushOptarg(p, c, name) ==
    /\ CanLink(p, c)
    /\ terms' = [terms EXCEPT ![p].optargs = Append(@, c),
                              ![c].optarg_name = name]
    /\ last_op' = Op("push_optarg", p, c)
    /\ UNCHANGED <<sample, query_json, query>>
    /\ NoWrite
    /\ UNCHANGED <<alloc_vars, parse_vars>>
    /\ UNCHANGED once_vars

\* serialize_term_tree(wm, &terms[i]).
SerializeTerm(i) ==
    /\ ~crashed
    /\ i \in 1..Len(terms)
    /\ tree' = <<TermTree(terms, i)>>
    /\ stream' = serialize_term_tree(TermTree(terms, i))
    /\ phase' = "wire"
    /\ last_op' = Op("serialize", i, NULL)
    /\ UNCHANGED <<cut, archive_res, term_out>>
    /\ UNCHANGED <<sample, query_json, query>>
    /\ UNCHANGED <<alloc_vars, storage_vars>>
    /\ UNCHANGED once_vars

NextRefs ==
    \/ \E t \in BuilderTerms : NewTerm(t)
    \/ \E src \in 1..MaxTerms : NewRef(src)
    \/ \E p, c \in 1..MaxTerms : PushArg(p, c)
    \/ \E p, c \in 1..MaxTerms : \E name \in OptargNames : PushOptarg(p, c, name)
    \/ \E i \in 1..MaxTerms : SerializeTerm(i)

SpecRefs == Init /\ [][NextRefs]_vars

(***************************************************************************)
(* JSON parsing into the arena.  The storage is threaded through the       *)
(* parser as st = [terms, start_time, reg, clock]; a call returns the      *)
(* storage as it leaves it, the term made and the exception thrown.        *)
(***************************************************************************)
FUNC == 69
DB == 14

Storage ==
    [terms |-> terms, start_time |-> start_time, reg |-> backtrace_registry,
     clock |-> clock]

Ok(st, res) == [st |-> st, res |-> res, exc |-> NoExc]

Throw(st, e) == [st |-> st, res |-> NULL, exc |-> e]

exc_t(kind, what, expected, found, bt) ==
    [raised |-> TRUE, kind |-> kind, bt |-> bt, what |-> what,
     expected |-> expected, found |-> found]

check_type(v, expected_type, bt) ==
    IF v.type # expected_type
    THEN exc_t("GENERIC", "Query parse error: expected %s but found %s.",
               rapidjson_typestr(expected_type), rapidjson_typestr(v.type), bt)
    ELSE NoExc

\* Mutant: an array of four elements passes.
check_term_size_AllowsFour(v, bt) ==
    IF Size(v) = 0 \/ Size(v) > 3 + 1
    THEN exc_t("GENERIC", "Expected an array of 1, 2, or 3 elements, but found %d.",
               "", "", bt)
    ELSE NoExc

check_term_size(v, bt) ==
    IF Size(v) = 0 \/ Size(v) > 3
    THEN exc_t("GENERIC", "Expected an array of 1, 2, or 3 elements, but found %d.",
               "", "", bt)
    ELSE NoExc

\* The datum to_datum makes of a JSON value, and pseudo::time_now().
Datum(type, n, str) == <<[type |-> type, n |-> n, str |-> str]>>

datum_of(v) ==
    Datum(to_datum(v).type,
          IF to_datum(v).type = "R_BOOL" THEN (IF to_datum(v).b THEN 1 ELSE 0)
          ELSE v.n,
          "")

time_now(now) == Datum("PTYPE<TIME>", now, "")

\* What to_datum throws on a malformed datum; it is not given a backtrace.
datum_exc == exc_t("GENERIC", "malformed datum", "", "", EmptyBacktrace)

\* backtrace_registry_t::new_frame(parent, label): a fresh backtrace id.
\* The label is a number (num, with str = "") or a string (str, num = -1).
Label(num, str) == [num |-> num, str |-> str]

new_frame(st, parent, label) ==
    [st |-> [st EXCEPT !.reg = Append(@, [parent |-> parent, label |-> label])],
     id |-> Len(st.reg) + 1]

\* Mutant: the start time is read from the clock at every call.
get_time_Uncached(st) ==
    [st |-> [st EXCEPT !.start_time = <<time_now(st.clock)>>],
     value |-> time_now(st.clock)]

\* term_storage_t::get_time, with the storage as it leaves it.
get_time(st) ==
    LET st1 == IF st.start_time = <<>>
               THEN [st EXCEPT !.start_time = <<time_now(st.clock)>>]
               ELSE st
    IN  [st |-> st1, value |-> st1.start_time[1]]

\* terms.push_back() and the two assignments of new_term.
push_term(st, type, bt) == [st EXCEPT !.terms = Append(@, new_term(type, bt))]

(***************************************************************************)
(* term_storage_t::parse_internal(v, bt_reg, bt), add_args and add_optargs.*)
(* bt_reg is TRUE when a registry is passed; parent is the index of the    *)
(* term whose list is filled.                                              *)
(***************************************************************************)
RECURSIVE parse_internal(_, _, _, _), add_args_from(_, _, _, _, _, _),
          add_optargs_from(_, _, _, _, _, _)

child_frame(st, bt_reg, bt, label) ==
    IF bt_reg THEN new_frame(st, bt, label)
    ELSE [st |-> st, id |-> EmptyBacktrace]

\* Mutant: every argument is given the backtrace of its parent.
add_args_from_ParentBt(st, v, i, parent, bt_reg, bt) ==
    IF i > Size(v) THEN Ok(st, parent)
    ELSE LET t == parse_internal(st, v.items[i], bt_reg, bt)
         IN  IF t.exc.raised THEN t
             ELSE add_args_from([t.st EXCEPT !.terms[parent].args =
                                     Append(@, t.res)],
                                v, i + 1, parent, bt_reg, bt)

\* The loop of add_args, from element i (counted from 1) on.
add_args_from(st, v, i, parent, bt_reg, bt) ==
    IF i > Size(v) THEN Ok(st, parent)
    ELSE LET fr == child_frame(st, bt_reg, bt, Label(i - 1, ""))
             t == parse_internal(fr.st, v.items[i], bt_reg, fr.id)
         IN  IF t.exc.raised THEN t
             ELSE add_args_from([t.st EXCEPT !.terms[parent].args =
                                     Append(@, t.res)],
                                v, i + 1, parent, bt_reg, bt)

add_args(st, v, parent, bt_reg, bt) ==
    IF check_type(v, "kArrayType", bt).raised
    THEN Throw(st, check_type(v, "kArrayType", bt))
    ELSE add_args_from(st, v, 1, parent, bt_reg, bt)

\* Mutant: the member's key is not stored on the child.
add_optargs_from_Unnamed(st, v, i, parent, bt_reg, bt) ==
    IF i > Len(v.members) THEN Ok(st, parent)
    ELSE LET fr == child_frame(st, bt_reg, bt, Label(-1, v.members[i].name))
             t == parse_internal(fr.st, v.members[i].value, bt_reg, fr.id)
         IN  IF t.exc.raised THEN t
             ELSE add_optargs_from(
                      [t.st EXCEPT !.terms[parent].optargs = Append(@, t.res)],
                      v, i + 1, parent, bt_reg, bt)

\* The loop of add_optargs, from member i on.
add_optargs_from(st, v, i, parent, bt_reg, bt) ==
    IF i > Len(v.members) THEN Ok(st, parent)
    ELSE LET fr == child_frame(st, bt_reg, bt, Label(-1, v.members[i].name))
             t == parse_internal(fr.st, v.members[i].value, bt_reg, fr.id)
         IN  IF t.exc.raised THEN t
             ELSE add_optargs_from(
                      [t.st EXCEPT !.terms[parent].optargs = Append(@, t.res),
                                   !.terms[t.res].optarg_name = v.members[i].name],
                      v, i + 1, parent, bt_reg, bt)

add_optargs(st, v, parent, bt_reg, bt) ==
    IF check_type(v, "kObjectType", bt).raised
    THEN Throw(st, check_type(v, "kObjectType", bt))
    ELSE add_optargs_from(st, v, 1, parent, bt_reg, bt)

\* Lines 359-363: a NOW term without args and optargs becomes a datum.
fold_now(st, res) ==
    IF /\ st.terms[res].type = NOW
       /\ num_args(st.terms[res]) = 0
       /\ num_optargs(st.terms[res]) = 0
    THEN Ok([get_time(st).st EXCEPT !.terms[res].type = DATUM,
                                    !.terms[res].value = get_time(st).value],
            res)
    ELSE Ok(st, res)

\* new_term(Term::DATUM, bt) and the datum of v (lines 370-372, 350-351).
datum_term(st, v, res) ==
    IF to_datum(v).raised THEN Throw(st, datum_exc)
    ELSE Ok([st EXCEPT !.terms[res].value = datum_of(v)], res)

parse_internal(st, v, bt_reg, bt) ==
    IF IsArray(v)
    THEN IF check_term_size(v, bt).raised
         THEN Throw(st, check_term_size(v, bt))
         ELSE IF check_type(v.items[1], "kNumberType", bt).raised
         THEN Throw(st, check_type(v.items[1], "kNumberType", bt))
         ELSE LET st1 == push_term(st, GetInt(v.items[1]), bt)
                  res == Len(st1.terms)
                  body ==
                      IF st1.terms[res].type = DATUM
                      THEN IF Size(v) # 2
                           THEN Throw(st1, exc_t("GENERIC",
                                    "Expected 2 items in array, but found %d",
                                    "", "", bt))
                           ELSE datum_term(st1, v.items[2], res)
                      ELSE IF Size(v) = 2
                      THEN add_args(st1, v.items[2], res, bt_reg, bt)
                      ELSE IF Size(v) = 3
                      THEN LET a == add_args(st1, v.items[2], res, bt_reg, bt)
                           IN  IF a.exc.raised THEN a
                               ELSE add_optargs(a.st, v.items[3], res, bt_reg, bt)
                      ELSE Ok(st1, res)
              IN  IF body.exc.raised THEN body ELSE fold_now(body.st, res)
    ELSE IF IsObject(v)
    THEN add_optargs(push_term(st, MAKE_OBJ, bt), v, Len(st.terms) + 1, bt_reg, bt)
    ELSE datum_term(push_term(st, DATUM, bt), v, Len(st.terms) + 1)

\* term_storage_t::add_root_term
add_root_term(st, v) == parse_internal(st, v, TRUE, EmptyBacktrace)

(***************************************************************************)
(* The mini-builder calls of add_global_optargs: expr(term) is a Reference *)
(* to the term, fun(body) a FUNC term with the body as argument, db(name)  *)
(* a DB term with the name as datum argument; all carry the empty          *)
(* backtrace.  Each returns the storage and the index of the term made.    *)
(***************************************************************************)
Made(st, t) == [st |-> [st EXCEPT !.terms = Append(@, t)], res |-> Len(st.terms) + 1]

expr(st, term) == Made(st, new_ref(st.terms, term))

fun(st, body) == Made(st, [new_term(FUNC, EmptyBacktrace) EXCEPT !.args = <<body>>])

db(st, name) ==
    LET d == Made(st, [new_term(DATUM, EmptyBacktrace) EXCEPT
                           !.value = Datum("R_STR", 0, name)])
    IN  Made(d.st, [new_term(DB, EmptyBacktrace) EXCEPT !.args = <<d.res>>])

\* global_optarg_list.push_back(func_term); tail()->optarg_name = key
push_global(st, list, func_term, key) ==
    [st |-> [st EXCEPT !.terms[func_term].optarg_name = key],
     list |-> Append(list, func_term), exc |-> NoExc]

\* Mutant: the default db optarg is appended whatever the client sent.
default_db_Always(st, list, has_db_optarg) ==
    LET f == fun(db(st, "test").st, db(st, "test").res)
    IN  push_global(f.st, list, f.res, "db")

\* Lines 298-304: the default db optarg.
default_db(st, list, has_db_optarg) ==
    IF ~has_db_optarg
    THEN LET f == fun(db(st, "test").st, db(st, "test").res)
         IN  push_global(f.st, list, f.res, "db")
    ELSE [st |-> st, list |-> list, exc |-> NoExc]

\* The loop of add_global_optargs from member i on.
RECURSIVE add_global_optargs_from(_, _, _, _, _)
add_global_optargs_from(st, v, i, list, has_db_optarg) ==
    IF i > Len(v.members) THEN default_db(st, list, has_db_optarg)
    ELSE LET key == v.members[i].name
             term == parse_internal(st, v.members[i].value, FALSE, EmptyBacktrace)
             e == expr(term.st, term.res)
             f == fun(e.st, e.res)
             pushed == push_global(f.st, list, f.res, key)
         IN  IF term.exc.raised
             THEN [st |-> term.st, list |-> list, exc |-> term.exc]
             ELSE add_global_optargs_from(pushed.st, v, i + 1, pushed.list,
                                          has_db_optarg \/ key = "db")

add_global_optargs(st, v) ==
    IF check_type(v, "kObjectType", EmptyBacktrace).raised
    THEN [st |-> st, list |-> <<>>,
          exc |-> check_type(v, "kObjectType", EmptyBacktrace)]
    ELSE add_global_optargs_from(st, v, 1, <<>>, FALSE)

(***************************************************************************)
(* Terms a client can send, and the operations of one term storage.        *)
(***************************************************************************)
\* Bound on the clock: the times at which the storage can be called.
MaxClock == 2

JTerm(type, rest) == JArray(<<JInt(type)>> \o rest)
JFive == JInt(SERVER_INFO)
JDatumFive == JTerm(DATUM, <<JFive>>)
JObjAB == JObject(<<Member("a", JFive), Member("db", JString)>>)

\* The shapes of a NOW term: three without children, two with.
NowJsons ==
    {JTerm(NOW, <<>>), JTerm(NOW, <<JArray(<<>>)>>),
     JTerm(NOW, <<JArray(<<>>), JObject(<<>>)>>),
     JTerm(NOW, <<JArray(<<JFive>>)>>),
     JTerm(NOW, <<JArray(<<>>), JObject(<<Member("a", JFive)>>)>>)}

\* Terms the parser accepts.
GoodTermJsons ==
    NowJsons
    \cup {JFive, JString, JNull, JDatumFive, JObjAB, JObject(<<>>),
          JObject(<<Member("a", JFive), Member("a", JString)>>),
          JObject(<<Member("a", JObjAB)>>),
          JTerm(FUNC, <<>>),
          JTerm(FUNC, <<JArray(<<JTerm(NOW, <<>>), JTerm(NOW, <<JArray(<<>>)>>)>>)>>),
          JTerm(FUNC, <<JArray(<<JDatumFive, JTerm(FUNC, <<JArray(<<JFive>>)>>)>>),
                        JObject(<<Member("db", JTerm(NOW, <<>>)),
                                  Member("a", JObjAB)>>)>>),
          JTerm(FUNC, <<JArray(<<>>),
                        JObject(<<Member("a", JFive), Member("a", JFive)>>)>>)}

\* Terms with one of the faults the parser looks for, at the root or below,
\* and a malformed datum.
BadTermJsons ==
    {JArray(<<>>),
     JTerm(FUNC, <<JArray(<<>>), JObject(<<>>), JNull>>),
     JArray(<<JString>>),
     JTerm(DATUM, <<>>),
     JTerm(DATUM, <<JFive, JObject(<<>>)>>),
     JTerm(FUNC, <<JFive>>),
     JTerm(FUNC, <<JArray(<<>>), JFive>>),
     JTerm(DATUM, <<JBadDatum>>),
     JTerm(FUNC, <<JArray(<<JDatumFive, JArray(<<>>)>>)>>),
     JTerm(FUNC, <<JArray(<<JTerm(FUNC, <<JArray(<<JArray(<<JString>>)>>)>>)>>),
                   JFive>>),
     JTerm(FUNC, <<JArray(<<JFive>>),
                   JObject(<<Member("a", JFive),
                             Member("db", JTerm(DATUM, <<>>))>>)>>),
     JObject(<<Member("a", JTerm(FUNC, <<JString>>))>>),
     JTerm(FUNC, <<JArray(<<JTerm(NOW, <<>>), JTerm(DATUM, <<JBadDatum>>)>>)>>)}

\* Terms whose type number is -1, the value of raw_term_t::REFERENCE: any
\* int passes the check of line 344 and the cast of line 345.
RefTagJsons ==
    {JTerm(REFERENCE, <<>>),
     JTerm(FUNC, <<JArray(<<JDatumFive, JTerm(REFERENCE, <<>>)>>)>>)}

TermJsons == GoodTermJsons \cup BadTermJsons \cup RefTagJsons

\* What a client can send as global optargs.
GlobalOptargJsons ==
    {JObject(<<>>),
     JObject(<<Member("db", JString)>>),
     JObject(<<Member("a", JTerm(NOW, <<>>))>>),
     JObject(<<Member("noreply", JDatumFive), Member("db", JObjAB)>>),
     JObject(<<Member("db", JFive), Member("a", JFive)>>),
     JObject(<<Member("db", JFive), Member("db", JString)>>),
     JObject(<<Member("a", JFive), Member("a", JTerm(FUNC, <<JArray(<<JFive>>)>>))>>),
     JObject(<<Member("a", JFive), Member("db", JTerm(FUNC, <<JFive>>))>>),
     JString,
     JArray(<<>>)}

SetStorage(st) ==
    /\ terms' = st.terms
    /\ start_time' = st.start_time
    /\ backtrace_registry' = st.reg
    /\ UNCHANGED clock

\* add_root_term(v), once per storage.
AddRootTerm(v) ==
    /\ ~exc.raised
    /\ root_term = <<>>
    /\ LET r == add_root_term(Storage, v)
       IN  /\ SetStorage(r.st)
           /\ root_term' = IF r.exc.raised THEN <<>> ELSE <<r.res>>
           /\ exc' = r.exc
    /\ term_json' = v
    /\ last_op' = Op("add_root_term", NULL, NULL)
    /\ UNCHANGED <<global_optarg_list, time_read>>
    /\ UNCHANGED <<sample, query_json, query>>
    /\ UNCHANGED <<alloc_vars, codec_vars>>
    /\ UNCHANGED once_vars

\* add_global_optargs(v), once per storage.
AddGlobalOptargs(v) ==
    /\ ~exc.raised
    /\ global_optarg_list = <<>>
    /\ LET r == add_global_optargs(Storage, v)
       IN  /\ SetStorage(r.st)
           /\ global_optarg_list' = r.list
           /\ exc' = r.exc
    /\ term_json' = v
    /\ last_op' = Op("add_global_optargs", NULL, NULL)
    /\ UNCHANGED <<root_term, time_read>>
    /\ UNCHANGED <<sample, query_json, query>>
    /\ UNCHANGED <<alloc_vars, codec_vars>>
    /\ UNCHANGED once_vars

\* get_time(), at any point.
GetTime ==
    /\ ~exc.raised
    /\ SetStorage(get_time(Storage).st)
    /\ time_read' = <<get_time(Storage).value>>
    /\ last_op' = Op("get_time", NULL, NULL)
    /\ UNCHANGED <<root_term, global_optarg_list, exc, term_json>>
    /\ UNCHANGED <<sample, query_json, query>>
    /\ UNCHANGED <<alloc_vars, codec_vars>>
    /\ UNCHANGED once_vars

\* Time passes.
Tick ==
    /\ clock < MaxClock
    /\ clock' = clock + 1
    /\ UNCHANGED <<terms, root_term, global_optarg_list, start_time,
                   backtrace_registry, exc, term_json, time_read>>
    /\ UNCHANGED <<alloc_vars, query_vars, codec_vars>>
    /\ UNCHANGED once_vars

NextParse ==
    \/ \E v \in TermJsons : AddRootTerm(v)
    \/ \E v \in GlobalOptargJsons : AddGlobalOptargs(v)
    \/ GetTime
    \/ Tick

SpecParse == Init /\ [][NextParse]_vars

(***************************************************************************)
(* pthread_once(complete, init) of the Windows stub, one step per access   *)
(* to *complete.  The flag is a plain bool and the function takes no lock, *)
(* so the steps of different threads interleave freely; a read of the flag *)
(* yields the value last written.                                          *)
(***************************************************************************)
OnceStep(t, from, to) ==
    /\ once_pc[t] = from
    /\ once_pc' = [once_pc EXCEPT ![t] = to]

\* A thread calls pthread_once(&flag, init).
OnceCall(t) ==
    /\ OnceStep(t, "idle", "test")
    /\ UNCHANGED <<complete, init_calls>>
    /\ UNCHANGED <<alloc_vars, query_vars, codec_vars, storage_vars>>

\* Line 97: if (*complete == PTHREAD_ONCE_INIT)
OnceTest(t) ==
    /\ OnceStep(t, "test", IF complete = PTHREAD_ONCE_INIT THEN "set" ELSE "return")
    /\ UNCHANGED <<complete, init_calls>>
    /\ UNCHANGED <<alloc_vars, query_vars, codec_vars, storage_vars>>

\* Line 98: *complete = PTHREAD_ONCE_COMPLETED
OnceSet(t) ==
    /\ OnceStep(t, "set", "init")
    /\ complete' = PTHREAD_ONCE_COMPLETED
    /\ UNCHANGED init_calls
    /\ UNCHANGED <<alloc_vars, query_vars, codec_vars, storage_vars>>

\* Line 99: init()
OnceInit(t) ==
    /\ OnceStep(t, "init", "return")
    /\ init_calls' = init_calls + 1
    /\ UNCHANGED complete
    /\ UNCHANGED <<alloc_vars, query_vars, codec_vars, storage_vars>>

\* Line 101: return 0
OnceReturn(t) ==
    /\ OnceStep(t, "return", "done")
    /\ UNCHANGED <<complete, init_calls>>
    /\ UNCHANGED <<alloc_vars, query_vars, codec_vars, storage_vars>>

NextOnce ==
    \/ \E t \in Threads : OnceCall(t)
    \/ \E t \in Threads : OnceTest(t)
    \/ \E t \in Threads : OnceSet(t)
    \/ \E t \in Threads : OnceInit(t)
    \/ \E t \in Threads : OnceReturn(t)

SpecOnce == Init /\ [][NextOnce]_vars

(***************************************************************************)
(* Properties of the query-id allocator.                                   *)
(***************************************************************************)
value_at(i) == handles[outstanding_query_ids[i]].value_

\* C1: after any sequence of acquires and releases, oldest_outstanding is the
\* value of the head of the outstanding list, or next_id when it is empty.
WatermarkTracksHead ==
    oldest_outstanding_query_id =
        IF outstanding_query_ids = <<>> THEN next_query_id ELSE value_at(1)

\* A, B, C acquired, B then A released: the watermark is C's value.
WatermarkAtThirdId ==
    /\ last_op.op = "release"
    /\ Len(outstanding_query_ids) = 1
    /\ value_at(1) = 2
    /\ oldest_outstanding_query_id = 2
    /\ next_query_id = 3

\* C2: the outstanding list is strictly increasing by value from head to
\* tail, and no guarantee of acquire or release ever fails.
OutstandingStrictlySorted ==
    /\ ~crashed
    /\ \A i, j \in 1..Len(outstanding_query_ids) :
           i < j => value_at(i) < value_at(j)

\* The head of a list of three was released: the guarantee of release ran.
HeadReleasedFromThree ==
    /\ last_op.op = "release"
    /\ Len(outstanding_query_ids) = 2
    /\ oldest_outstanding_query_id = 1
    /\ next_query_id = 3

\* C3: once the watermark has reached a sample of next_id, no handle with a
\* value below the sample is on the outstanding list.
DrainedBelowSample ==
    (sample >= 0 /\ oldest_outstanding_query_id >= sample) =>
        \A i \in 1..Len(outstanding_query_ids) : value_at(i) >= sample

\* Two ids were outstanding at the sample, both are released, and an id
\* acquired after the sample is still outstanding.
WaiterReleasedWhileLaterIdLives ==
    /\ sample = 2
    /\ last_op.op = "release"
    /\ oldest_outstanding_query_id = 2
    /\ Len(outstanding_query_ids) = 1

\* C4: an acquire hands out the previous next_id, increments next_id by one,
\* appends the handle at the tail and leaves the watermark alone; the values
\* issued so far are all smaller, whatever was released in between.
AcquireIssuesNextId ==
    [][/\ last_op'.op = "acquire" =>
            /\ handles'[last_op'.h].value_ = next_query_id
            /\ outstanding_query_ids' =
                   Append(outstanding_query_ids, last_op'.h)
            /\ oldest_outstanding_query_id' = oldest_outstanding_query_id
       /\ last_op'.op \in {"acquire", "query"} =>
            /\ next_query_id' = next_query_id + 1
            /\ issued' = Append(issued, next_query_id)
            /\ \A i \in 1..Len(issued) : issued[i] < next_query_id]_vars

\* The third id was acquired after the first two had been released.
ThirdIdAfterReleases ==
    /\ last_op.op = "acquire"
    /\ issued = <<0, 1, 2>>
    /\ Len(outstanding_query_ids) = 1

\* C18: if every handle acquired before a sample s of next_id is eventually
\* released, then eventually oldest_outstanding >= s, and it stays so for
\* ever, however many handles acquired after the sample stay outstanding.
\* A later sample is never smaller than an earlier one, so the watermark
\* that stays at or above the last sample has reached every sample taken.
WatermarkReachesSample == <>[](oldest_outstanding_query_id >= sample)

\* The watermark has reached the sample while two handles acquired after
\* the sample are outstanding.
SampleReachedWithTwoLater ==
    /\ last_op.op = "release"
    /\ sample = 1
    /\ oldest_outstanding_query_id = 1
    /\ Len(outstanding_query_ids) = 2
    /\ next_query_id = 3

\* C20: destroying a handle that is not on the outstanding list (its parent
\* pointer is null) changes neither next_id nor the list nor the watermark;
\* after a move the destination alone is on the list, with the value and at
\* the position of the original.
OffListReleaseAndMoveKeepList ==
    [][/\ (last_op'.op = "release" /\ ~in_a_list(Cache, last_op'.h)) =>
            /\ next_query_id' = next_query_id
            /\ outstanding_query_ids' = outstanding_query_ids
            /\ oldest_outstanding_query_id' = oldest_outstanding_query_id
            /\ \A g \in Slots \ {last_op'.h} : handles'[g] = handles[g]
       /\ last_op'.op = "move" =>
            /\ in_a_list(Cache', last_op'.h)
            /\ ~in_a_list(Cache', last_op'.other)
            /\ handles'[last_op'.h].value_ = handles[last_op'.other].value_
            /\ Len(outstanding_query_ids') = Len(outstanding_query_ids)
            /\ \A i \in 1..Len(outstanding_query_ids) :
                   outstanding_query_ids'[i] =
                       IF outstanding_query_ids[i] = last_op'.other
                       THEN last_op'.h ELSE outstanding_query_ids[i]
            /\ next_query_id' = next_query_id
            /\ oldest_outstanding_query_id' = oldest_outstanding_query_id]_vars

\* A moved-from handle was destroyed while both ids acquired so far are
\* still outstanding.
MovedFromDestroyedBesideTwo ==
    /\ last_op.op = "release"
    /\ next_query_id = 2
    /\ Len(outstanding_query_ids) = 2
    /\ oldest_outstanding_query_id = 0

\* C21: across any sequence of acquire, move and release steps, the
\* acquire-then-release of a reply query and of a rejected envelope included,
\* oldest_outstanding never decreases, and oldest_outstanding <= next_id in
\* every state.
WatermarkMonotoneBelowNextId ==
    /\ [](oldest_outstanding_query_id <= next_query_id)
    /\ [][oldest_outstanding_query_id' >= oldest_outstanding_query_id]_vars

\* A rejected envelope took the second id and gave it back with nothing
\* outstanding: the watermark moved up to next_id.
WatermarkRaisedByRejectedEnvelope ==
    /\ last_op.op = "query"
    /\ query.status = "CLIENT_ERROR"
    /\ outstanding_query_ids = <<>>
    /\ oldest_outstanding_query_id = 2
    /\ next_query_id = 2
    /\ \E h \in HandleIds : handles[h].alive /\ ~handles[h].parent

(***************************************************************************)
(* Properties of the envelope constructor.                                 *)
(***************************************************************************)
Constructed == last_op.op = "query" /\ query.status = "ok"

\* C5: after a successful construction the id is on the outstanding list iff
\* noreply is true; for a reply query the list is as before and only next_id
\* (and the watermark, when the list is empty) has advanced by one.
IdKeptIffNoreply ==
    [][(last_op'.op = "query" /\ query'.status = "ok") =>
         /\ in_a_list(Cache', query'.id) <=> query'.noreply
         /\ next_query_id' = next_query_id + 1
         /\ ~query'.noreply =>
              /\ outstanding_query_ids' = outstanding_query_ids
              /\ \A i \in 1..Len(outstanding_query_ids) :
                     handles'[outstanding_query_ids[i]] =
                         handles[outstanding_query_ids[i]]
              /\ oldest_outstanding_query_id' =
                     IF outstanding_query_ids = <<>>
                     THEN oldest_outstanding_query_id + 1
                     ELSE oldest_outstanding_query_id
         /\ query'.noreply =>
              /\ outstanding_query_ids' =
                     Append(outstanding_query_ids, query'.id)
              /\ oldest_outstanding_query_id' = oldest_outstanding_query_id]_vars

\* A reply query was constructed while a noreply query was outstanding.
ReplyQueryBesideNoreply ==
    /\ Constructed
    /\ ~query.noreply
    /\ Len(outstanding_query_ids) = 1

EnvelopeShapeBad(json) ==
    \/ ~IsArray(json)
    \/ Size(json) = 0
    \/ Size(json) > 3
    \/ ~IsNumber(json.items[1])
    \/ (Size(json) >= 3 /\ ~IsObject(json.items[3]))

\* C6: construction fails with CLIENT_ERROR and the empty backtrace exactly
\* when the document is not an array, has 0 or more than 3 elements, element
\* 0 is not a number or element 2 is present and not an object; every other
\* envelope is accepted; the not-an-array message names the type found.
RejectedIffShapeBad ==
    last_op.op = "query" =>
        /\ EnvelopeShapeBad(query_json) <=>
               (query.status = "CLIENT_ERROR" /\ query.bt = "EMPTY_BACKTRACE")
        /\ ~EnvelopeShapeBad(query_json) => query.status = "ok"
        /\ ~IsArray(query_json) =>
               query.found = rapidjson_typestr(query_json.type)

\* C22: when the construction of a query object fails with an envelope
\* error, the id acquired before validation is released during unwinding:
\* the outstanding list holds exactly the handles it held before the call,
\* the watermark is the head's value (next_id when the list is empty), and
\* next_id is one greater than before; no handle of the failed call stays
\* alive.
RejectedEnvelopeReleasesId ==
    [][(last_op'.op = "query" /\ query'.status = "CLIENT_ERROR") =>
         /\ outstanding_query_ids' = outstanding_query_ids
         /\ \A i \in 1..Len(outstanding_query_ids) :
                handles'[outstanding_query_ids[i]] =
                    handles[outstanding_query_ids[i]]
         /\ ~in_a_list(Cache', last_op'.h)
         /\ ~handles'[last_op'.h].alive
         /\ ~handles'[Destroyer].alive
         /\ next_query_id' = next_query_id + 1
         /\ issued' = Append(issued, next_query_id)
         /\ oldest_outstanding_query_id' =
                IF outstanding_query_ids' = <<>>
                THEN next_query_id'
                ELSE handles'[outstanding_query_ids'[1]].value_
         /\ ~crashed']_vars

\* An envelope was rejected while the ids of two noreply queries were
\* outstanding.
EnvelopeRejectedBesideTwoNoreply ==
    /\ last_op.op = "query"
    /\ query.status = "CLIENT_ERROR"
    /\ Len(outstanding_query_ids) = 2
    /\ oldest_outstanding_query_id = 0
    /\ next_query_id = 3

QueryTypes == {START, CONTINUE, STOP, NOREPLY_WAIT, SERVER_INFO}

\* C7: after every successful construction the operation type is one of
\* START, CONTINUE, STOP, NOREPLY_WAIT, SERVER_INFO.
QueryTypeIsKnown == Constructed => query.type \in QueryTypes

\* What the helper is said to return: b for a first member of the exact shape
\* [DATUM, b], the default otherwise.  A tag counts as DATUM when it is a
\* number that GetInt reads as DATUM.
IsExactBool(v) ==
    /\ IsArray(v)
    /\ Size(v) = 2
    /\ IsNumber(v.items[1])
    /\ GetInt(v.items[1]) = DATUM
    /\ v.items[2] \in {JBool(TRUE), JBool(FALSE)}

ExpectedBool(obj, key, default_value) ==
    LET it == FindMember(obj, key)
    IN  IF it # 0 /\ IsExactBool(obj.members[it].value)
        THEN obj.members[it].value.items[2] = JBool(TRUE)
        ELSE default_value

\* C8: static_optarg_as_bool returns b for the exact shape [DATUM, b] and the
\* default for every other shape, and never raises; noreply and profile are
\* false when the envelope has no global optargs.
StaticOptargNeverRaises ==
    (last_op.op = "query" /\ ~EnvelopeShapeBad(query_json)) =>
        /\ query.status = "ok"
        /\ Size(query_json) = 3 =>
             /\ query.noreply = ExpectedBool(query_json.items[3], "noreply", FALSE)
             /\ query.profile = ExpectedBool(query_json.items[3], "profile", FALSE)
        /\ Size(query_json) < 3 => (~query.noreply /\ ~query.profile)

(***************************************************************************)
(* Properties of the term-tree codec.                                      *)
(***************************************************************************)
\* C9: for a tree without Reference nodes, reading back with the latest codec
\* what serialize_term_tree wrote returns SUCCESS and *term_out is a tree
\* identical to it: types, backtraces, datums, args and named optargs.
RoundTripIsIdentity ==
    (phase = "done" /\ ~cut) =>
        /\ archive_res = "SUCCESS"
        /\ term_out = tree

\* A term with two optargs of different names came back whole.
TwoOptargsRoundTrip ==
    /\ phase = "done"
    /\ ~cut
    /\ Len(tree[1].optargs) = 2
    /\ tree[1].optargs[1].optarg_name = "db"
    /\ tree[1].optargs[2].optarg_name = "a"
    /\ tree[1].optargs[1].type = DATUM
    /\ term_out = tree

\* C10: when the stream ends early, anywhere in the record, the deserializer
\* returns a result other than SUCCESS and leaves *term_out unset.
NoPartialTreeOnShortRead ==
    (phase = "done" /\ cut) =>
        /\ archive_res # "SUCCESS"
        /\ term_out = <<>>

(***************************************************************************)
(* Properties of the term storage.                                         *)
(***************************************************************************)
\* The tree a reader should find: every Reference replaced by its target,
\* under the name of the list member.
RECURSIVE Resolved(_)
Resolved(t) ==
    LET u == IF t.type = REFERENCE THEN t.src[1] ELSE t
    IN  [u EXCEPT !.optarg_name = t.optarg_name,
                  !.args = [k \in 1..Len(u.args) |-> Resolved(u.args[k])],
                  !.optargs = [k \in 1..Len(u.optargs) |->
                                  Resolved(u.optargs[k])]]

\* C11: whatever term is given to serialize_term_tree, itself a Reference or
\* with References among its args and optargs, the stream holds no node
\* tagged REFERENCE: a reader finds the tree with every Reference replaced
\* by its target, an optarg under the name of its list member.
RefsWrittenAsTargets ==
    last_op.op = "serialize" =>
        LET r == deserialize_term_tree(stream, 1, <<>>)
        IN  /\ r.res = "SUCCESS"
            /\ r.term_out = <<[Resolved(tree[1]) EXCEPT !.optarg_name = ""]>>

\* C12: no Reference of the arena has a Reference as its target, and the
\* guarantee of new_ref never fails.
NoReferenceToReference ==
    /\ ~crashed
    /\ \A i \in 1..Len(terms) :
           terms[i].type = REFERENCE =>
               /\ terms[i].src # <<>>
               /\ terms[terms[i].src[1]].type # REFERENCE

\* new_ref was applied to a Reference.
RefOfRefTaken ==
    /\ last_op.op = "new_ref"
    /\ terms[last_op.other].type = REFERENCE
    /\ terms[last_op.h].src = terms[last_op.other].src

(***************************************************************************)
(* Properties of JSON parsing.                                             *)
(***************************************************************************)
MemberValues(v) == [k \in 1..Len(v.members) |-> v.members[k].value]

\* [NOW], [NOW, []] or [NOW, [], {}].
NullaryNowJson(v) ==
    /\ IsArray(v)
    /\ GetInt(v.items[1]) = NOW
    /\ Size(v) >= 2 => Size(v.items[2]) = 0
    /\ Size(v) = 3 => Len(v.items[3].members) = 0

\* The number of NOW terms written in a well-formed JSON term: those
\* without children when nullary is TRUE, those with children otherwise.
RECURSIVE NowCount(_, _), NowCountIn(_, _)
NowCountIn(list, nullary) ==
    IF list = <<>> THEN 0
    ELSE NowCount(Head(list), nullary) + NowCountIn(Tail(list), nullary)

NowCount(v, nullary) ==
    IF IsArray(v)
    THEN IF GetInt(v.items[1]) = DATUM THEN 0
         ELSE (IF GetInt(v.items[1]) = NOW /\ NullaryNowJson(v) = nullary
               THEN 1 ELSE 0)
              + (IF Size(v) >= 2 THEN NowCountIn(v.items[2].items, nullary) ELSE 0)
              + (IF Size(v) = 3
                 THEN NowCountIn(MemberValues(v.items[3]), nullary) ELSE 0)
    ELSE IF IsObject(v) THEN NowCountIn(MemberValues(v), nullary)
    ELSE 0

IsTime(term) ==
    term.type = DATUM /\ term.value # NoDatum /\ term.value[1].type = "PTYPE<TIME>"

TimeDatums == {i \in 1..Len(terms) : IsTime(terms[i])}

NowTerms == {i \in 1..Len(terms) : terms[i].type = NOW}

\* C13: after a parse no NOW term without args and optargs is left: each
\* has become a datum, all these datums of one storage carry the start
\* time, get_time() returns that same value at any later point, and a NOW
\* term with an arg or an optarg is left as it is.
NowFoldedToStartTime ==
    ~exc.raised =>
        /\ \A i \in NowTerms : num_args(terms[i]) + num_optargs(terms[i]) > 0
        /\ \A i \in TimeDatums :
               start_time # <<>> /\ terms[i].value = start_time[1]
        /\ time_read # <<>> => time_read = start_time
        /\ (last_op.op = "add_root_term" /\ global_optarg_list = <<>>) =>
               /\ Cardinality(TimeDatums) = NowCount(term_json, TRUE)
               /\ Cardinality(NowTerms) = NowCount(term_json, FALSE)

\* Two NOW terms were folded at time 1 and get_time() is called at time 2.
TwoNowsThenGetTime ==
    /\ last_op.op = "get_time"
    /\ clock = 2
    /\ Cardinality(TimeDatums) = 2
    /\ \A i \in TimeDatums : terms[i].value = time_now(1)
    /\ time_read = <<time_now(1)>>

\* The tree parse_internal makes of v alone, without a registry, in a
\* storage with the start time of this one.
ParsedAlone(v) ==
    LET r == parse_internal([Storage EXCEPT !.terms = <<>>], v, FALSE,
                            EmptyBacktrace)
    IN  TermTree(r.st.terms, r.res)

HasDbMember(v) == \E k \in 1..Len(v.members) : v.members[k].name = "db"

\* fun(body): a FUNC term with the empty backtrace whose argument is body.
IsFunOf(entry, body) ==
    /\ entry.type = FUNC
    /\ entry.bt = EmptyBacktrace
    /\ Len(entry.args) = 1
    /\ entry.optargs = <<>>
    /\ Resolved(entry.args[1]) = body

\* db("test")
DbTest ==
    [new_term(DB, EmptyBacktrace) EXCEPT
         !.args = <<[new_term(DATUM, EmptyBacktrace) EXCEPT
                         !.value = Datum("R_STR", 0, "test")]>>]

GlobalOptarg(k) == TermTree(terms, global_optarg_list[k])

\* C14: after add_global_optargs on an object the list holds one entry per
\* member, in document order, named by the key and wrapping the parsed
\* value as fun(expr(value)); one more entry named "db" with the body
\* fun(db("test")) comes last iff no member is keyed "db".
GlobalOptargsListed ==
    (last_op.op = "add_global_optargs" /\ ~exc.raised) =>
        LET n == Len(term_json.members)
        IN  /\ IsObject(term_json)
            /\ Len(global_optarg_list) = IF HasDbMember(term_json) THEN n ELSE n + 1
            /\ \A k \in 1..n :
                   /\ GlobalOptarg(k).optarg_name = term_json.members[k].name
                   /\ IsFunOf(GlobalOptarg(k),
                              ParsedAlone(term_json.members[k].value))
            /\ ~HasDbMember(term_json) =>
                   /\ GlobalOptarg(n + 1).optarg_name = "db"
                   /\ IsFunOf(GlobalOptarg(n + 1), DbTest)

\* The client sent db and one more optarg: two entries, no default.
ClientDbKept ==
    /\ last_op.op = "add_global_optargs"
    /\ ~exc.raised
    /\ Len(global_optarg_list) = 2
    /\ GlobalOptarg(1).optarg_name = "db"
    /\ GlobalOptarg(2).optarg_name = "a"

\* The labels of the frames from the root down to the backtrace bt.
RECURSIVE FramePath(_, _)
FramePath(reg, bt) ==
    IF bt = EmptyBacktrace THEN <<>>
    ELSE FramePath(reg, reg[bt].parent) \o <<reg[bt].label>>

\* The first term of a document, in parsing order, that has a fault, with
\* the labels leading to it: "shape" for an array term of 0 or more than 3
\* elements, an element 0 that is not a number, a DATUM term that has not
\* 2 elements, an element 1 that is not an array, an element 2 that is not
\* an object; "datum" for a malformed datum; "none" when there is none.
NoFault == [kind |-> "none", path |-> <<>>]
ShapeFault == [kind |-> "shape", path |-> <<>>]
DatumFault == [kind |-> "datum", path |-> <<>>]

RECURSIVE Fault(_), FaultIn(_, _, _)
FaultIn(values, labels, i) ==
    IF i > Len(values) THEN NoFault
    ELSE IF Fault(values[i]).kind # "none"
    THEN [Fault(values[i]) EXCEPT !.path = <<labels[i]>> \o @]
    ELSE FaultIn(values, labels, i + 1)

IndexLabels(v) == [k \in 1..Len(v.items) |-> Label(k - 1, "")]
KeyLabels(v) == [k \in 1..Len(v.members) |-> Label(-1, v.members[k].name)]

Fault(v) ==
    IF IsArray(v)
    THEN IF Size(v) = 0 \/ Size(v) > 3 THEN ShapeFault
         ELSE IF ~IsNumber(v.items[1]) THEN ShapeFault
         ELSE IF GetInt(v.items[1]) = DATUM
         THEN IF Size(v) # 2 THEN ShapeFault
              ELSE IF ~DatumOk(v.items[2]) THEN DatumFault ELSE NoFault
         ELSE IF Size(v) = 1 THEN NoFault
         ELSE IF ~IsArray(v.items[2]) THEN ShapeFault
         ELSE IF FaultIn(v.items[2].items, IndexLabels(v.items[2]), 1).kind # "none"
         THEN FaultIn(v.items[2].items, IndexLabels(v.items[2]), 1)
         ELSE IF Size(v) = 2 THEN NoFault
         ELSE IF ~IsObject(v.items[3]) THEN ShapeFault
         ELSE FaultIn(MemberValues(v.items[3]), KeyLabels(v.items[3]), 1)
    ELSE IF IsObject(v) THEN FaultIn(MemberValues(v), KeyLabels(v), 1)
    ELSE IF ~DatumOk(v) THEN DatumFault ELSE NoFault

\* The fault add_global_optargs meets in its document.
GlobalFault(v) ==
    IF ~IsObject(v) THEN ShapeFault ELSE FaultIn(MemberValues(v), KeyLabels(v), 1)

\* C15: parsing fails with GENERIC and the backtrace of the term being
\* parsed when a term has one of the shape faults, and with no other shape
\* does parse_internal itself raise.
ShapeFaultsRaiseGeneric ==
    /\ last_op.op = "add_root_term" =>
          /\ Fault(term_json).kind = "shape" =>
                /\ exc.raised
                /\ exc.kind = "GENERIC"
                /\ FramePath(backtrace_registry, exc.bt) = Fault(term_json).path
          /\ Fault(term_json).kind = "none" => ~exc.raised
          /\ Fault(term_json).kind = "datum" => exc = datum_exc
    /\ last_op.op = "add_global_optargs" =>
          /\ GlobalFault(term_json).kind = "shape" =>
                /\ exc.raised
                /\ exc.kind = "GENERIC"
                /\ exc.bt = EmptyBacktrace
          /\ GlobalFault(term_json).kind = "none" => ~exc.raised
          /\ GlobalFault(term_json).kind = "datum" => exc = datum_exc

\* An array whose element 0 is a string, two levels below the root.
NestedTermRejected ==
    /\ last_op.op = "add_root_term"
    /\ exc.raised
    /\ exc.found = "STRING"
    /\ FramePath(backtrace_registry, exc.bt) = <<Label(0, ""), Label(0, "")>>

\* A tree with every backtrace set to the empty one.
RECURSIVE StripBt(_)
StripBt(t) ==
    [t EXCEPT !.bt = EmptyBacktrace,
              !.args = [k \in 1..Len(t.args) |-> StripBt(t.args[k])],
              !.optargs = [k \in 1..Len(t.optargs) |-> StripBt(t.optargs[k])]]

RootTree == TermTree(terms, root_term[1])

\* C16: a bare JSON object parses to a MAKE_OBJ term without args and with
\* one optarg per member, in member order, named by the key and holding the
\* parsed member value; a bare scalar parses to one DATUM term without
\* children.
ObjectsAndScalarsDesugared ==
    (last_op.op = "add_root_term" /\ ~exc.raised) =>
        /\ IsObject(term_json) =>
              /\ RootTree.type = MAKE_OBJ
              /\ RootTree.args = <<>>
              /\ Len(RootTree.optargs) = Len(term_json.members)
              /\ \A k \in 1..Len(term_json.members) :
                     /\ RootTree.optargs[k].optarg_name = term_json.members[k].name
                     /\ StripBt([RootTree.optargs[k] EXCEPT !.optarg_name = ""])
                            = ParsedAlone(term_json.members[k].value)
        /\ (~IsObject(term_json) /\ ~IsArray(term_json)) =>
              RootTree = [new_term(DATUM, EmptyBacktrace) EXCEPT
                                 !.value = datum_of(term_json)]

\* {"a": 5, "db": "s"} was parsed: two optargs, both datums.
ObjectOfTwoParsed ==
    /\ last_op.op = "add_root_term"
    /\ ~exc.raised
    /\ IsObject(term_json)
    /\ Len(RootTree.optargs) = 2
    /\ RootTree.optargs[1].optarg_name = "a"
    /\ RootTree.optargs[2].optarg_name = "db"
    /\ RootTree.optargs[1].type = DATUM
    /\ RootTree.optargs[2].value = datum_of(JString)

OptargNamesOf(i) == [k \in 1..Len(terms[i].optargs) |->
                         terms[terms[i].optargs[k]].optarg_name]

Distinct(names) ==
    \A j, k \in 1..Len(names) : j # k => names[j] # names[k]

\* C17: the optarg names of every term made by the parser, and the names
\* of the global optarg list, are pairwise distinct for every input the
\* parser accepts.
OptargNamesUnique ==
    ~exc.raised =>
        /\ \A i \in 1..Len(terms) : Distinct(OptargNamesOf(i))
        /\ Distinct([k \in 1..Len(global_optarg_list) |->
                         terms[global_optarg_list[k]].optarg_name])

\* C19: parsed with the registry, the root term carries the empty
\* backtrace, the i-th argument of a term with backtrace bt a fresh frame
\* with parent bt and label i, an optarg named k a fresh frame with parent
\* bt and label k; every term made without a registry carries the empty
\* backtrace.
RootTerms == IF root_term = <<>> THEN {} ELSE Reach(terms, root_term[1])

BacktracesFollowPositions ==
    ~exc.raised =>
        /\ root_term # <<>> => terms[root_term[1]].bt = EmptyBacktrace
        /\ \A p \in RootTerms :
               /\ \A k \in 1..Len(terms[p].args) :
                      /\ terms[terms[p].args[k]].bt # EmptyBacktrace
                      /\ backtrace_registry[terms[terms[p].args[k]].bt] =
                             [parent |-> terms[p].bt, label |-> Label(k - 1, "")]
               /\ \A k \in 1..Len(terms[p].optargs) :
                      /\ terms[terms[p].optargs[k]].bt # EmptyBacktrace
                      /\ backtrace_registry[terms[terms[p].optargs[k]].bt] =
                             [parent |-> terms[p].bt,
                              label |-> Label(-1, terms[terms[p].optargs[k]].optarg_name)]
        /\ \A p, q \in RootTerms : p # q => terms[p].bt # terms[q].bt
        /\ \A p \in (1..Len(terms)) \ RootTerms : terms[p].bt = EmptyBacktrace

\* A root term with args and optargs two levels deep was parsed, and global
\* optargs with a term of their own.
DeepRootBesideGlobalOptargs ==
    /\ ~exc.raised
    /\ root_term # <<>>
    /\ Len(backtrace_registry) >= 5
    /\ Len(terms[root_term[1]].optargs) = 2
    /\ \E p \in (1..Len(terms)) \ RootTerms : terms[p].args # <<>> /\ terms[p].type = FUNC
    /\ Len(global_optarg_list) = 2

(***************************************************************************)
(* Properties of the Reference terms of a storage.                         *)
(***************************************************************************)
\* C23: every term of type REFERENCE in a storage was created by new_ref and
\* has a non-null target: parsing client JSON (add_root_term,
\* add_global_optargs) never creates a term whose type tag is REFERENCE,
\* whatever integer the client supplies as the term type, so num_args,
\* num_optargs, args and optargs never dereference a null target.
ReferencesHaveTargets ==
    \A i \in 1..Len(terms) :
        terms[i].type = REFERENCE =>
            /\ terms[i].src # <<>>
            /\ terms[i] = new_ref(terms, terms[i].src[1])
            /\ terms[terms[i].src[1]].type # REFERENCE

(***************************************************************************)
(* Properties of pthread_once.                                             *)
(***************************************************************************)
\* C24: for every interleaving of pthread_once calls made by two or more
\* threads on the same control flag, the init routine is invoked exactly
\* once: never more than once, and once when the calls have returned.
InitInvokedExactlyOnce ==
    /\ init_calls <= 1
    /\ (/\ \A t \in Threads : once_pc[t] \in {"idle", "done"}
        /\ \E t \in Threads : once_pc[t] = "done") => init_calls = 1

====
